---------------------------- MODULE Spec2Model ----------------------------
(***************************************************************************)
(* A model of the LinkedIn games leaderboard:                              *)
(*   src/src/linkedin_games_parser.py  parse_whatsapp_chat, clean_line     *)
(*   src/src/ranking_app.py            time_to_seconds, streamlit_app      *)
(*                                                                         *)
(* Four specifications share the module's variables:                       *)
(*   SpecTime    the m:ss formatting and time_to_seconds                   *)
(*   SpecParse   parse_whatsapp_chat, one step per input line              *)
(*   SpecScore   the per-game ranking and tie redistribution               *)
(*   SpecViews   the day filter, the total-time view, the per-game views   *)
(*                                                                         *)
(* Strings whose characters matter (play_time, the formatted times) are    *)
(* sequences of one-character strings; Python's None is the empty          *)
(* sequence where an optional integer is returned.  Numbers that pandas    *)
(* holds as floats are kept exactly, as integers over a stated             *)
(* denominator (Scale for points, 100 for rounded seconds).                *)
(***************************************************************************)
EXTENDS Integers, Sequences, FiniteSets

VARIABLES
    \* ---- time_to_seconds / formatting (SpecTime)
    secs, play_time, decoded, time_pc,
    \* ---- parse_whatsapp_chat (SpecParse)
    input, pos, raw, current_msg_lines, rows, parsed_df, exc, parse_pc,
    \* ---- per-game scoring (SpecScore)
    game_df, dates_done, success_list, score_pc,
    \* ---- views (SpecViews)
    df, day_filter, day_from, filtered_df, daily_avg_times, final_total_times,
    per_game_rankings, games_done, view_pc

timeVars  == <<secs, play_time, decoded, time_pc>>
parseVars == <<input, pos, raw, current_msg_lines, rows, parsed_df, exc, parse_pc>>
scoreVars == <<game_df, dates_done, success_list, score_pc>>
viewVars  == <<df, day_filter, day_from, filtered_df, daily_avg_times,
               final_total_times, per_game_rankings, games_done, view_pc>>
vars      == <<timeVars, parseVars, scoreVars, viewVars>>

(***************************************************************************)
(* Bounds of the model.                                                    *)
(***************************************************************************)
MaxSeconds == 7299      \* SpecTime: seconds formatted and decoded, 0..MaxSeconds
MaxLines   == 3         \* SpecParse: lines of the input stream
MaxEntries == 4         \* SpecScore: rows of one game's game_df
MaxRows    == 7         \* SpecViews: rows of the result table

(***************************************************************************)
(* Generic helpers.                                                        *)
(***************************************************************************)
RECURSIVE SumOver(_, _)
\* the sum of f[x] over the finite set S
SumOver(S, f) ==
    IF S = {} THEN 0
    ELSE LET x == CHOOSE y \in S : TRUE IN f[x] + SumOver(S \ {x}, f)

Max(S) == CHOOSE x \in S : \A y \in S : y <= x
Min(S) == CHOOSE x \in S : \A y \in S : x <= y

\* every sequence without repetition that enumerates the finite set S
Perms(S) ==
    {p \in [1..Cardinality(S) -> S] : \A i, j \in DOMAIN p : i # j => p[i] # p[j]}

(***************************************************************************)
(* Strings as character sequences.                                         *)
(***************************************************************************)
Digits == <<"0", "1", "2", "3", "4", "5", "6", "7", "8", "9">>

\* the code point order of the characters the formatted times are made of
CharOrd(c) ==
    CASE c = " " -> 32
      [] c = ":" -> 58
      [] OTHER   -> 47 + (CHOOSE i \in 1..10 : Digits[i] = c)

RECURSIVE IntToStr(_)
\* str(n) / f"{n}" for n >= 0
IntToStr(n) ==
    IF n < 10 THEN <<Digits[n + 1]>>
    ELSE Append(IntToStr(n \div 10), Digits[(n % 10) + 1])

\* f"{n:02d}" for n >= 0
Pad2(n) == IF n < 10 THEN <<"0">> \o IntToStr(n) ELSE IntToStr(n)

RECURSIVE StrToInt(_)
\* int(p) for a string of decimal digits (leading zeros allowed)
StrToInt(p) ==
    IF Len(p) = 0 THEN 0
    ELSE 10 * StrToInt(SubSeq(p, 1, Len(p) - 1)) + (CharOrd(p[Len(p)]) - 48)

RECURSIVE Strip(_)
\* str.strip() over the blank
Strip(s) ==
    IF s # <<>> /\ Head(s) = " " THEN Strip(Tail(s))
    ELSE IF s # <<>> /\ s[Len(s)] = " " THEN Strip(SubSeq(s, 1, Len(s) - 1))
    ELSE s

RECURSIVE Split(_, _)
\* str.split(sep): the pieces between the occurrences of the character sep
Split(s, sep) ==
    IF \A i \in 1..Len(s) : s[i] # sep THEN <<s>>
    ELSE LET k == CHOOSE i \in 1..Len(s) :
                      s[i] = sep /\ \A j \in 1..(i - 1) : s[j] # sep
         IN  <<SubSeq(s, 1, k - 1)>> \o Split(SubSeq(s, k + 1, Len(s)), sep)

RECURSIVE StrLess(_, _)
\* a < b for Python strings: lexicographic by code point
StrLess(a, b) ==
    IF b = <<>> THEN FALSE
    ELSE IF a = <<>> THEN TRUE
    ELSE IF CharOrd(Head(a)) # CharOrd(Head(b))
         THEN CharOrd(Head(a)) < CharOrd(Head(b))
    ELSE StrLess(Tail(a), Tail(b))

(***************************************************************************)
(* ranking_app.py: time_to_seconds and the m:ss / h:mm:ss formatting.      *)
(***************************************************************************)
\* faulty variant of time_to_seconds: the first of two parts weighted as hours
time_to_seconds_hours(time_str) ==
    LET parts == Split(Strip(time_str), ":") IN
    IF Len(parts) = 2
        THEN <<StrToInt(parts[1]) * 3600 + StrToInt(parts[2])>>
    ELSE IF Len(parts) = 3
        THEN <<StrToInt(parts[1]) * 3600 + StrToInt(parts[2]) * 60 + StrToInt(parts[3])>>
    ELSE <<>>

\* time_to_seconds(time_str) for a str argument: <<n>> for the int n, <<>> for None
time_to_seconds(time_str) ==
    LET parts == Split(Strip(time_str), ":") IN
    IF Len(parts) = 2
        THEN <<StrToInt(parts[1]) * 60 + StrToInt(parts[2])>>
    ELSE IF Len(parts) = 3
        THEN <<StrToInt(parts[1]) * 3600 + StrToInt(parts[2]) * 60 + StrToInt(parts[3])>>
    ELSE <<>>

\* f"{int(x // 60)}:{int(x % 60):02d}" for x = num / den (den > 0, num >= 0)
FormatMSS(num, den) ==
    IntToStr(num \div (60 * den)) \o <<":">> \o Pad2((num % (60 * den)) \div den)

\* f"{int(x // 3600)}:{int((x % 3600) // 60):02d}:{int(x % 60):02d}" for x = num / den
FormatHMMSS(num, den) ==
    IntToStr(num \div (3600 * den)) \o <<":">>
        \o Pad2((num % (3600 * den)) \div (60 * den)) \o <<":">>
        \o Pad2((num % (60 * den)) \div den)

(***************************************************************************)
(* linkedin_games_parser.py.  A line is a sequence of atoms; an atom       *)
(* stands for a stretch of the line that the parser's patterns treat as    *)
(* a unit:                                                                 *)
(*   hdr        "[DD/MM/YY(YY), H:MM:SS] Sender: " at the start of a line  *)
(*   game       "<Game> #<number> | <m:ss>", what game_re matches          *)
(*   ceo        "<percent>% ... CEOs", what ceo_re matches                 *)
(*   word       chat text none of the patterns matches                     *)
(*   invisible  U+200E and the other marks clean_line removes              *)
(* " ".join of lines is the concatenation of their atoms.                  *)
(***************************************************************************)
None == <<>>
Some(x) == <<x>>

DateTok(dd, mm, yy, ylen) == [dd |-> dd, mm |-> mm, yy |-> yy, ylen |-> ylen]
NoDateTok == DateTok(0, 0, 0, 0)

Atom(k, date, sender, game, number, time, percent) ==
    [k |-> k, date |-> date, sender |-> sender, game |-> game,
     number |-> number, time |-> time, percent |-> percent]
HdrAtom(date, sender) == Atom("hdr", date, sender, "", 0, <<>>, 0)
GameAtom(game, number, time) == Atom("game", NoDateTok, "", game, number, time, 0)
CeoAtom(percent) == Atom("ceo", NoDateTok, "", "", 0, <<>>, percent)
WordAtom == Atom("word", NoDateTok, "", "", 0, <<>>, 0)
InvisibleAtom == Atom("invisible", NoDateTok, "", "", 0, <<>>, 0)

\* clean_line(raw): the invisible marks removed (NFKC leaves these atoms as they are)
clean_line(line) == SelectSeq(line, LAMBDA a : a.k # "invisible")

\* re.match(r"^\[(\d{2}/\d{2}/\d{2,4}),? (\d{1,2}:\d{2}:\d{2})]", raw)
IsHeaderLine(line) == line # <<>> /\ Head(line).k = "hdr"

RECURSIVE Join(_)
\* " ".join(current_msg_lines)
Join(lines) == IF lines = <<>> THEN <<>> ELSE Head(lines) \o Join(Tail(lines))

IsLeap(y) == (y % 4 = 0 /\ y % 100 # 0) \/ y % 400 = 0
DaysInMonth(y, m) ==
    IF m = 2 THEN (IF IsLeap(y) THEN 29 ELSE 28)
    ELSE IF m \in {4, 6, 9, 11} THEN 30 ELSE 31

\* datetime.strptime(date_str, "%d/%m/%y" if len(date_str) == 8 else "%d/%m/%Y").date():
\* Some(<<year, month, day>>), or None where strptime raises ValueError
StrpDate(tok) ==
    LET year == IF tok.ylen = 2
                    THEN (IF tok.yy <= 68 THEN 2000 + tok.yy ELSE 1900 + tok.yy)
                    ELSE tok.yy
    IN  IF /\ tok.ylen \in {2, 4}
           /\ year >= 1
           /\ tok.mm \in 1..12
           /\ tok.dd >= 1
           /\ tok.dd <= DaysInMonth(year, tok.mm)
        THEN Some(<<year, tok.mm, tok.dd>>)
        ELSE None

\* dt.isoformat() strings compare as the dates do
DateLeq(a, b) ==
    \/ a[1] < b[1]
    \/ a[1] = b[1] /\ a[2] < b[2]
    \/ a[1] = b[1] /\ a[2] = b[2] /\ a[3] <= b[3]

\* pattern.search(text): the first atom of kind k in text, as Some(atom), or None
Search(text, k) ==
    IF \E i \in 1..Len(text) : text[i].k = k
    THEN Some(text[CHOOSE i \in 1..Len(text) :
                     text[i].k = k /\ \A j \in 1..(i - 1) : text[j].k # k])
    ELSE None

\* the row built from a matched message (parser lines 67-77 and 97-107)
MakeRow(dt, sender, text) ==
    LET g == Search(text, "game")
        c == Search(text, "ceo")
    IN  [date        |-> dt,
         sender      |-> sender,
         text        |-> text,
         game        |-> IF g # None THEN Some(g[1].game) ELSE None,
         game_number |-> IF g # None THEN Some(g[1].number) ELSE None,
         play_time   |-> IF g # None THEN Some(g[1].time) ELSE None,
         ceo_percent |-> IF c # None THEN Some(c[1].percent) ELSE None]

\* line_re.search(full_msg): the joined message starts with a header
LineReMatches(full_msg) == full_msg # <<>> /\ Head(full_msg).k = "hdr"

\* parsing of one joined message (lines 58-78, 88-108):
\* "skip" (no match), "raise" (strptime's ValueError) or "row"
FlushKind(msg_lines) ==
    LET full_msg == Join(msg_lines) IN
    IF ~LineReMatches(full_msg) THEN "skip"
    ELSE IF StrpDate(Head(full_msg).date) = None THEN "raise"
    ELSE "row"

FlushRow(msg_lines) ==
    LET full_msg == Join(msg_lines) IN
    MakeRow(StrpDate(Head(full_msg).date)[1], Head(full_msg).sender, Tail(full_msg))

\* lines 121-126: a second ceo_re.search for the rows without a percent
FixCeo(r) ==
    IF r.ceo_percent = None /\ Search(r.text, "ceo") # None
    THEN [r EXCEPT !.ceo_percent = Some(Search(r.text, "ceo")[1].percent)]
    ELSE r

\* the six columns of the DataFrame
Columns(r) ==
    [date |-> r.date, sender |-> r.sender, game |-> r.game,
     game_number |-> r.game_number, play_time |-> r.play_time,
     ceo_percent |-> r.ceo_percent]

\* lines 129-144: the frames pd.DataFrame(rows).sort_values(by="date")
\* .dropna(subset=["game"]).reset_index(drop=True) can be; sort_values' default
\* quicksort leaves the order of equal dates open
BuildDataFrames(rs) ==
    LET fixed  == [i \in 1..Len(rs) |-> Columns(FixCeo(rs[i]))]
        sorted == {p \in Perms(1..Len(rs)) :
                      \A i, j \in 1..Len(rs) :
                          i < j => DateLeq(fixed[p[i]].date, fixed[p[j]].date)}
    IN  {SelectSeq([i \in 1..Len(rs) |-> fixed[p[i]]], LAMBDA r : r.game # None) :
            p \in sorted}

(***************************************************************************)
(* The input lines SpecParse draws from.                                   *)
(***************************************************************************)
T045 == <<"0", ":", "4", "5">>
T050 == <<"0", ":", "5", "0">>

GoodDate4   == DateTok(14, 10, 2025, 4)     \* 14/10/2025
GoodDate2   == DateTok(13, 10, 25, 2)       \* 13/10/25
BadDay      == DateTok(31, 2, 2025, 4)      \* 31/02/2025
BadMonth    == DateTok(14, 13, 2025, 4)     \* 14/13/2025
BadYear3    == DateTok(14, 10, 25, 3)       \* 14/10/025

LineAlphabet ==
    { <<HdrAtom(GoodDate4, "Alice"), GameAtom("Tango", 120, T045)>>,
      <<HdrAtom(GoodDate2, "Bob"), GameAtom("Zip", 7, T050), CeoAtom(98)>>,
      <<HdrAtom(GoodDate4, "Bob"), WordAtom>>,
      <<InvisibleAtom, HdrAtom(GoodDate4, "Cara"), WordAtom>>,
      <<HdrAtom(BadDay, "Bob"), GameAtom("Tango", 120, T050)>>,
      <<HdrAtom(BadMonth, "Bob"), WordAtom>>,
      <<HdrAtom(BadYear3, "Cara"), GameAtom("Zip", 7, T045)>>,
      <<CeoAtom(98)>>,
      <<GameAtom("Tango", 120, T045)>>,
      <<WordAtom>>,
      <<>> }

Inputs == UNION {[1..n -> LineAlphabet] : n \in 0..MaxLines}

(***************************************************************************)
(* parse_whatsapp_chat, one action per iteration of "for raw in f" and one *)
(* for everything after the loop.                                          *)
(***************************************************************************)
ParseInit ==
    /\ input \in Inputs
    /\ pos = 1
    /\ raw = None                   \* not yet bound
    /\ current_msg_lines = <<>>
    /\ rows = <<>>
    /\ parsed_df = <<>>
    /\ exc = "none"
    /\ parse_pc = "loop"

ParseIdle ==
    /\ input = <<>>
    /\ pos = 1
    /\ raw = None
    /\ current_msg_lines = <<>>
    /\ rows = <<>>
    /\ parsed_df = <<>>
    /\ exc = "none"
    /\ parse_pc = "idle"

\* lines 51-81: a line that starts a new message
ParseHeaderLine ==
    /\ parse_pc = "loop"
    /\ pos <= Len(input)
    /\ LET line == clean_line(input[pos]) IN
       /\ IsHeaderLine(line)
       /\ raw' = Some(line)
       /\ pos' = pos + 1
       /\ IF current_msg_lines # <<>> /\ FlushKind(current_msg_lines) = "raise"
          THEN /\ parse_pc' = "raised"
               /\ exc' = "ValueError"
               /\ UNCHANGED <<current_msg_lines, rows>>
          ELSE /\ rows' = IF current_msg_lines # <<>>
                             /\ FlushKind(current_msg_lines) = "row"
                          THEN Append(rows, FlushRow(current_msg_lines))
                          ELSE rows
               /\ current_msg_lines' = <<line>>
               /\ UNCHANGED <<parse_pc, exc>>
    /\ UNCHANGED <<input, parsed_df>>

\* lines 51-55, 82-84: any other line
ParseContinuationLine ==
    /\ parse_pc = "loop"
    /\ pos <= Len(input)
    /\ LET line == clean_line(input[pos]) IN
       /\ ~IsHeaderLine(line)
       /\ raw' = Some(line)
       /\ pos' = pos + 1
       /\ current_msg_lines' = Append(current_msg_lines, line)
    /\ UNCHANGED <<input, rows, parsed_df, exc, parse_pc>>

\* lines 86-151: the last message, the ceo fix, the DataFrame
ParseEndOfInput ==
    /\ parse_pc = "loop"
    /\ pos > Len(input)
    /\ IF current_msg_lines # <<>>
       THEN IF FlushKind(current_msg_lines) = "raise"
            THEN /\ parse_pc' = "raised"
                 /\ exc' = "ValueError"
                 /\ UNCHANGED <<current_msg_lines, rows, parsed_df>>
            ELSE /\ rows' = IF FlushKind(current_msg_lines) = "row"
                            THEN Append(rows, FlushRow(current_msg_lines))
                            ELSE rows
                 /\ current_msg_lines' = <<raw[1]>>
                 /\ parsed_df' \in BuildDataFrames(rows')
                 /\ parse_pc' = "returned"
                 /\ UNCHANGED exc
       ELSE IF raw = None
            THEN \* line 115 reads raw, which no iteration has bound
                 /\ parse_pc' = "raised"
                 /\ exc' = "UnboundLocalError"
                 /\ UNCHANGED <<current_msg_lines, rows, parsed_df>>
            ELSE /\ current_msg_lines' = Append(current_msg_lines, raw[1])
                 /\ parsed_df' \in BuildDataFrames(rows)
                 /\ parse_pc' = "returned"
                 /\ UNCHANGED <<rows, exc>>
    /\ UNCHANGED <<input, pos, raw>>

(***************************************************************************)
(* SpecTime: a number of seconds is formatted as m:ss and decoded.         *)
(***************************************************************************)
TimeInit ==
    /\ secs \in 0..MaxSeconds
    /\ play_time = <<>>
    /\ decoded = None
    /\ time_pc = "format"

TimeIdle ==
    /\ secs = 0
    /\ play_time = <<>>
    /\ decoded = None
    /\ time_pc = "idle"

\* ranking_app.py lines 341-346: the m:ss string of a number of seconds
FormatTime ==
    /\ time_pc = "format"
    /\ play_time' = FormatMSS(secs, 1)
    /\ time_pc' = "decode"
    /\ UNCHANGED <<secs, decoded>>

\* ranking_app.py line 163: the string decoded again
DecodeTime ==
    /\ time_pc = "decode"
    /\ decoded' = time_to_seconds(play_time)
    /\ time_pc' = "done"
    /\ UNCHANGED <<secs, play_time>>

(***************************************************************************)
(* ranking_app.py lines 248-298: the ranking of one configured game.       *)
(* game_df is a sequence of rows [date, sender, time_sec, rank, score];    *)
(* a score is held as points * Scale, so that 9 / val, 4 / val and 1 / val *)
(* are exact for every multiplicity val <= MaxEntries.                     *)
(***************************************************************************)
RECURSIVE Factorial(_)
Factorial(n) == IF n <= 1 THEN 1 ELSE n * Factorial(n - 1)

Scale == Factorial(MaxEntries)

ScoreDates   == {1, 2}
ScorePlayers == {"A", "B"}
ScoreTimes   == {45, 50, 55, 60}

Entry(date, sender, time_sec) ==
    [date |-> date, sender |-> sender, time_sec |-> time_sec, rank |-> 0, score |-> 0]

Entries == {Entry(d, p, t) : d \in ScoreDates, p \in ScorePlayers, t \in ScoreTimes}

\* the order the drawn frames list their rows in: by date, time and sender
EntryKey(e) == (e.date * 1000 + e.time_sec) * 10 + (IF e.sender = "A" THEN 0 ELSE 1)

RECURSIVE FramesOfLen(_)
\* the frames of n rows, one per multiset of n entries
FramesOfLen(n) ==
    IF n = 0 THEN {<<>>}
    ELSE UNION {{Append(g, e) : e \in {x \in Entries :
                                          g = <<>> \/ EntryKey(g[Len(g)]) <= EntryKey(x)}} :
                   g \in FramesOfLen(n - 1)}

\* the game_df frames of 1..MaxEntries rows
GameFrames == UNION {FramesOfLen(n) : n \in 1..MaxEntries}

\* the row numbers of game_df[game_df["date"] == date]
DateRows(g, date) == {i \in 1..Len(g) : g[i].date = date}

RECURSIVE Insert(_, _)
Insert(sorted, v) ==
    IF sorted = <<>> THEN <<v>>
    ELSE IF v <= Head(sorted) THEN <<v>> \o sorted
    ELSE <<Head(sorted)>> \o Insert(Tail(sorted), v)

RECURSIVE SortedValues(_, _)
\* the values f[i], i in S, in ascending order
SortedValues(S, f) ==
    IF S = {} THEN <<>>
    ELSE LET i == CHOOSE x \in S : TRUE IN Insert(SortedValues(S \ {i}, f), f[i])

\* faulty variant of RankMin: rank(method="dense"), a tied group taking one place
RankDense(g, i) ==
    1 + Cardinality({g[j].time_sec : j \in {k \in DateRows(g, g[i].date) :
                                              g[k].time_sec < g[i].time_sec}})

\* game_df.groupby("date")["time_sec"].rank(method="min") for row i: the first of
\* the places 1..n that the row's value takes in its date's ascending order
RankMin(g, i) ==
    LET order == SortedValues(DateRows(g, g[i].date), [j \in 1..Len(g) |-> g[j].time_sec])
    IN  CHOOSE p \in 1..Len(order) :
            order[p] = g[i].time_sec /\ \A q \in 1..(p - 1) : order[q] # g[i].time_sec

\* faulty variant of score_map: the third place scores nothing
score_map_top2(rank) ==
    CASE rank = 1 -> 5
      [] rank = 2 -> 3
      [] OTHER    -> 0

\* line 255 and 257: rank.map({1: 5, 2: 3, 3: 1}).fillna(0)
score_map(rank) ==
    CASE rank = 1 -> 5
      [] rank = 2 -> 3
      [] rank = 3 -> 1
      [] OTHER    -> 0

\* the sum of the scores of the rows S of g
ScoreSum(g, S) == SumOver(S, [i \in 1..Len(g) |-> g[i].score])

\* date_df["score"].value_counts().to_dict(): score value -> multiplicity
ValueCounts(g, date) ==
    [key \in {g[i].score : i \in DateRows(g, date)} |->
        Cardinality({i \in DateRows(g, date) : g[i].score = key})]

\* faulty variant of NewScore: a tied value is split among the rows that hold it
NewScoreSplit(key, val) ==
    IF val > 1 /\ key # 0 THEN Some(key \div val) ELSE None

\* lines 264-283: the score the rows holding key get when key occurs val times,
\* as Some(score), or None when no branch applies
NewScore(key, val) ==
    IF key = 5 * Scale /\ val = 2 THEN Some(4 * Scale)
    ELSE IF key = 5 * Scale /\ val > 2 THEN Some((9 * Scale) \div val)
    ELSE IF key = 3 * Scale /\ val > 1 THEN Some((4 * Scale) \div val)
    ELSE IF key = 1 * Scale /\ val > 1 THEN Some((1 * Scale) \div val)
    ELSE None

\* faulty variant of ApplyKey: the mask leaves out the date
ApplyKeyAnyDate(g, date, key, val) ==
    IF NewScore(key, val) = None THEN g
    ELSE [i \in 1..Len(g) |->
            IF g[i].score = key
            THEN [g[i] EXCEPT !.score = NewScore(key, val)[1]]
            ELSE g[i]]

\* one iteration of "for key, val in dict_scores": game_df.loc[mask, "score"] = ...
\* with the mask taken on game_df as it is now
ApplyKey(g, date, key, val) ==
    IF NewScore(key, val) = None THEN g
    ELSE [i \in 1..Len(g) |->
            IF g[i].date = date /\ g[i].score = key
            THEN [g[i] EXCEPT !.score = NewScore(key, val)[1]]
            ELSE g[i]]

RECURSIVE ApplyKeys(_, _, _, _)
ApplyKeys(g, date, counts, order) ==
    IF order = <<>> THEN g
    ELSE ApplyKeys(ApplyKey(g, date, Head(order), counts[Head(order)]),
                   date, counts, Tail(order))

\* the orders value_counts() can list the values in: by descending multiplicity
KeyOrders(counts) ==
    {o \in Perms(DOMAIN counts) :
        \A i, j \in 1..Len(o) : i < j => counts[o[i]] >= counts[o[j]]}

\* lines 260-283 for one date: the frames the redistribution can leave
Redistributed(g, date) ==
    IF ScoreSum(g, DateRows(g, date)) # 9 * Scale
    THEN {ApplyKeys(g, date, ValueCounts(g, date), o) : o \in KeyOrders(ValueCounts(g, date))}
    ELSE {g}

\* lines 284-296: whether the date's total passes the check
DateSucceeds(before, after, date) ==
    LET n   == Cardinality(DateRows(before, date))
        sum == ScoreSum(after, DateRows(after, date))
    IN  \/ 9 * Scale * 100000 <= sum * 100000 /\ sum * 100000 <= 900001 * Scale
        \/ n = 2 /\ sum = 8 * Scale
        \/ n = 1 /\ sum = 5 * Scale
        \/ n = 0

\* game_df["date"].unique(): the dates in the order of their first rows
RECURSIVE Unique(_)
Unique(s) ==
    IF s = <<>> THEN <<>>
    ELSE LET rest == Unique(SubSeq(s, 1, Len(s) - 1))
         IN  IF \E i \in 1..Len(rest) : rest[i] = s[Len(s)]
             THEN rest ELSE Append(rest, s[Len(s)])

UniqueDates(g) == Unique([i \in 1..Len(g) |-> g[i].date])

ScoreInit ==
    /\ game_df \in GameFrames
    /\ dates_done = 0
    /\ success_list = 0
    /\ score_pc = "rank"

ScoreIdle ==
    /\ game_df = <<>>
    /\ dates_done = 0
    /\ success_list = 0
    /\ score_pc = "idle"

\* lines 254-258: the rank and score columns
RankPlayers ==
    /\ score_pc = "rank"
    /\ game_df' = [i \in 1..Len(game_df) |->
                      [game_df[i] EXCEPT !.rank = RankMin(game_df, i),
                                         !.score = score_map(RankMin(game_df, i)) * Scale]]
    /\ score_pc' = "dates"
    /\ UNCHANGED <<dates_done, success_list>>

\* lines 259-296: one iteration of "for date in game_df["date"].unique()"
RedistributeDate ==
    /\ score_pc = "dates"
    /\ dates_done < Len(UniqueDates(game_df))
    /\ LET date == UniqueDates(game_df)[dates_done + 1] IN
       /\ game_df' \in Redistributed(game_df, date)
       /\ success_list' = IF DateSucceeds(game_df, game_df', date)
                          THEN success_list + 1 ELSE success_list
    /\ dates_done' = dates_done + 1
    /\ UNCHANGED score_pc

\* lines 297-298: the loop over the dates has ended
ScoresComputed ==
    /\ score_pc = "dates"
    /\ dates_done = Len(UniqueDates(game_df))
    /\ score_pc' = "done"
    /\ UNCHANGED <<game_df, dates_done, success_list>>

(***************************************************************************)
(* ranking_app.py lines 143-220 and 313-395: the day filter, the total-    *)
(* time view and the per-game views.  df is the table after line 143's     *)
(* drop_duplicates, a set of rows [date, sender, game, play_time]; a date  *)
(* is a day number, and AllDays stands for the selection "All".  The       *)
(* per-game view keeps the columns Player, Time / Average Time, Minimum    *)
(* Time and N.1; its score column is the subject of SpecScore and its CEO  *)
(* column orders nothing.  The row that lines 128-142 add by hand is one   *)
(* more row of df and is not told apart.  Rows of df differ in date,       *)
(* sender, game or play_time.                                              *)
(***************************************************************************)
GAMES == <<"Zip", "Tango", "Queens", "Mini Sudoku">>

AllDays == 0
default_start_date == 2         \* "2026-01-01" among the day numbers 1, 2

T205  == <<"2", ":", "0", "5">>
T1000 == <<"1", "0", ":", "0", "0">>

ViewDates   == {1, 2}
ViewPlayers == {"A", "B"}
\* the results a player can have posted on a day: <<game, play_time>>
ViewResults == {<<"Zip", T205>>, <<"Zip", T1000>>, <<"tango", T1000>>}

RowUniverse ==
    {[date |-> d, sender |-> p, game |-> x[1], play_time |-> x[2]] :
        d \in ViewDates, p \in ViewPlayers, x \in ViewResults}

RECURSIVE SubsetsUpTo(_, _)
\* the subsets of S of at most k elements
SubsetsUpTo(S, k) ==
    IF k = 0 \/ S = {} THEN {{}}
    ELSE LET x == CHOOSE y \in S : TRUE
         IN  SubsetsUpTo(S \ {x}, k) \cup {T \cup {x} : T \in SubsetsUpTo(S \ {x}, k - 1)}

\* str.lower() on the game names in use
Lower(name) ==
    CASE name = "Zip"         -> "zip"
      [] name = "Tango"       -> "tango"
      [] name = "Queens"      -> "queens"
      [] name = "Mini Sudoku" -> "mini sudoku"
      [] OTHER                -> name

\* the sequences that list the set S in an order that inverts no pair of the
\* relation less: what sort_values (quicksort, ties in any order) can return
SortedBy(S, less) ==
    {p \in Perms(S) : \A i, j \in 1..Len(p) : i < j => <<p[j], p[i]>> \notin less}

\* lines 147-167: the rows selected, with their time_sec column
Filtered(table, filter, from) ==
    LET kept == IF filter = AllDays
                THEN {r \in table : r.date >= from}
                ELSE {r \in table : r.date = filter}
    IN  {[date |-> r.date, sender |-> r.sender, game |-> r.game,
          play_time |-> r.play_time,
          time_sec |-> time_to_seconds(r.play_time)[1]] : r \in kept}

TimeSum(S) == SumOver(S, [r \in S |-> r.time_sec])

\* lines 170-175: the (date, Player) groups and their summed time_sec
DailyTimes(f) ==
    [k \in {<<r.date, r.sender>> : r \in f} |->
        TimeSum({r \in f : r.date = k[1] /\ r.sender = k[2]})]

\* lines 177-181: groupby("sender").size()
GamesPlayed(f) ==
    [p \in {r.sender : r \in f} |-> Cardinality({r \in f : r.sender = p})]

\* lines 183-185: the daily sums summed per Player
TotalTimeAllDays(f) ==
    [p \in {r.sender : r \in f} |->
        SumOver({k \in DOMAIN DailyTimes(f) : k[2] = p}, DailyTimes(f))]

\* faulty variant of Round2: the hundredths truncated
Round2Floor(num, den) == (100 * num) \div den

\* (num / den).round(2) in hundredths, halves to the even hundredth
Round2(num, den) ==
    LET q == (100 * num) \div den
        r == (100 * num) % den
    IN  IF 2 * r > den THEN q + 1
        ELSE IF 2 * r < den THEN q
        ELSE IF q % 2 = 0 THEN q ELSE q + 1

\* lines 190-197: "Total Time (sec)" in hundredths of a second
NormalizedTotal(total, played, most, avg100) ==
    IF played = most THEN 100 * total ELSE (most - played) * avg100 + 100 * total

\* lines 186-206: daily_avg_times, one row per Player
DailyAvgTimes(f, filter) ==
    LET played == GamesPlayed(f)
        total  == TotalTimeAllDays(f)
        most   == Max({played[p] : p \in DOMAIN played})
    IN  [p \in DOMAIN total |->
            LET avg100   == Round2(total[p], played[p])
                total100 == NormalizedTotal(total[p], played[p], most, avg100)
            IN  [games_played |-> played[p],
                 avg100       |-> avg100,
                 total100     |-> total100,
                 total_time   |-> IF filter = AllDays
                                  THEN FormatHMMSS(total100, 100)
                                  ELSE FormatMSS(total100, 100)]]

\* the order sort_values(by="Total Time") sorts by: that of the strings
TotalTimeLess(a, b) == StrLess(a.total_time, b.total_time)

\* lines 215-220: final_total_times, the rows in every order the sort can leave
FinalTotalTimes(avg) ==
    LET view == {[player |-> p, games_played |-> avg[p].games_played,
                  total_time |-> avg[p].total_time] : p \in DOMAIN avg}
    IN  SortedBy(view, {x \in view \X view : TotalTimeLess(x[1], x[2])})

\* line 249: the rows of one configured game
GameRows(f, game) == {r \in f : Lower(r.game) = Lower(game)}

\* faulty variant of NumBest: the minimum is taken over all dates at once
NumBestOverall(g, p) ==
    Cardinality({r \in g : /\ r.sender = p
                           /\ r.time_sec = Min({x.time_sec : x \in g})})

\* lines 315-319: how many rows of the sender hold their date's minimum
NumBest(g, p) ==
    Cardinality({r \in g : /\ r.sender = p
                           /\ r.time_sec = Min({x.time_sec : x \in {y \in g : y.date = r.date}})})

\* lines 321-334, 341-346: merged, one row per sender of the game
Merged(g) ==
    {LET mine == {r \in g : r.sender = p} IN
     [player       |-> p,
      avg_num      |-> TimeSum(mine),
      avg_den      |-> Cardinality(mine),
      time         |-> FormatMSS(TimeSum(mine), Cardinality(mine)),
      minimum_time |-> FormatMSS(Min({r.time_sec : r \in mine}), 1),
      num_best     |-> NumBest(g, p)] : p \in {r.sender : r \in g}}

AvgLess(a, b) == a.avg_num * b.avg_den < b.avg_num * a.avg_den
MoreBest(a, b) == a.num_best > b.num_best

\* the order sort_values(by="Time") sorts by: that of the strings
TimeLess(a, b) == StrLess(a.time, b.time)

\* lines 361-389: the columns of merged_final ("Time" is "Average Time" under "All")
FinalColumns(m) ==
    [player |-> m.player, time |-> m.time, minimum_time |-> m.minimum_time,
     num_best |-> m.num_best]

\* lines 336-339 and 361-395: the per-game view, in every order the two sorts
\* can leave; the second sort is again a quicksort, so the first one's order
\* does not survive among the rows the second one's key ties
PerGameView(g, filter) ==
    LET merged == Merged(g)
        first  == IF filter # AllDays
                  THEN SortedBy(merged, {x \in merged \X merged : AvgLess(x[1], x[2])})
                  ELSE SortedBy(merged, {x \in merged \X merged : MoreBest(x[1], x[2])})
    IN  UNION {LET final == {FinalColumns(m[i]) : i \in 1..Len(m)} IN
               IF filter = AllDays
               THEN SortedBy(final, {x \in final \X final : MoreBest(x[1], x[2])})
               ELSE SortedBy(final, {x \in final \X final : TimeLess(x[1], x[2])}) :
                   m \in first}

Tables == SubsetsUpTo(RowUniverse, MaxRows) \ {{}}

ViewInit ==
    /\ df \in Tables
    /\ day_filter = AllDays
    /\ day_from = default_start_date
    /\ filtered_df = {}
    /\ daily_avg_times = <<>>
    /\ final_total_times = <<>>
    /\ per_game_rankings = [g \in {} |-> <<>>]
    /\ games_done = 0
    /\ view_pc = "filter"

ViewIdle ==
    /\ df = {}
    /\ day_filter = AllDays
    /\ day_from = default_start_date
    /\ filtered_df = {}
    /\ daily_avg_times = <<>>
    /\ final_total_times = <<>>
    /\ per_game_rankings = [g \in {} |-> <<>>]
    /\ games_done = 0
    /\ view_pc = "idle"

\* lines 146-167: one day is selected
FilterOneDay ==
    /\ view_pc = "filter"
    /\ \E d \in {r.date : r \in df} :
        /\ day_filter' = d
        /\ filtered_df' = Filtered(df, d, day_from)
    /\ view_pc' = "totals"
    /\ UNCHANGED <<df, day_from, daily_avg_times, final_total_times,
                   per_game_rankings, games_done>>

\* lines 146-167: "All" is selected, with the day the ranking starts from; a
\* selection without rows ends the run here (nothing to rank)
FilterAllDays ==
    /\ view_pc = "filter"
    /\ \E from \in {default_start_date} \cup {r.date : r \in df} :
        /\ day_from' = from
        /\ filtered_df' = Filtered(df, AllDays, from)
    /\ day_filter' = AllDays
    /\ view_pc' = IF filtered_df' = {} THEN "empty" ELSE "totals"
    /\ UNCHANGED <<df, daily_avg_times, final_total_times,
                   per_game_rankings, games_done>>

\* lines 169-220: the total and average times of all games together
TotalTimes ==
    /\ view_pc = "totals"
    /\ daily_avg_times' = DailyAvgTimes(filtered_df, day_filter)
    /\ final_total_times' \in FinalTotalTimes(daily_avg_times')
    /\ view_pc' = "games"
    /\ UNCHANGED <<df, day_filter, day_from, filtered_df, per_game_rankings, games_done>>

\* lines 248-252: a configured game without rows is passed over
NoDataForGame ==
    /\ view_pc = "games"
    /\ games_done < Len(GAMES)
    /\ GameRows(filtered_df, GAMES[games_done + 1]) = {}
    /\ games_done' = games_done + 1
    /\ UNCHANGED <<df, day_filter, day_from, filtered_df, daily_avg_times,
                   final_total_times, per_game_rankings, view_pc>>

\* lines 248-395: the view of a configured game that has rows
PerGameRanking ==
    /\ view_pc = "games"
    /\ games_done < Len(GAMES)
    /\ LET game == GAMES[games_done + 1]
           g    == GameRows(filtered_df, game)
       IN  /\ g # {}
           /\ \E view \in PerGameView(g, day_filter) :
                per_game_rankings' =
                    [k \in DOMAIN per_game_rankings \cup {game} |->
                        IF k = game THEN view ELSE per_game_rankings[k]]
    /\ games_done' = games_done + 1
    /\ UNCHANGED <<df, day_filter, day_from, filtered_df, daily_avg_times,
                   final_total_times, view_pc>>

\* lines 416-453: the loop over GAMES has ended and the views are returned
ReturnViews ==
    /\ view_pc = "games"
    /\ games_done = Len(GAMES)
    /\ view_pc' = "done"
    /\ UNCHANGED <<df, day_filter, day_from, filtered_df, daily_avg_times,
                   final_total_times, per_game_rankings, games_done>>

(***************************************************************************)
(* The specifications.  Each one runs its own part of the program and      *)
(* leaves the variables of the other parts as they are.                    *)
(***************************************************************************)
TimeSpecInit == TimeInit /\ ParseIdle /\ ScoreIdle /\ ViewIdle
TimeNext ==
    \/ FormatTime /\ UNCHANGED <<parseVars, scoreVars, viewVars>>
    \/ DecodeTime /\ UNCHANGED <<parseVars, scoreVars, viewVars>>
SpecTime == TimeSpecInit /\ [][TimeNext]_vars

ParseSpecInit == ParseInit /\ TimeIdle /\ ScoreIdle /\ ViewIdle
ParseNext ==
    \/ ParseHeaderLine /\ UNCHANGED <<timeVars, scoreVars, viewVars>>
    \/ ParseContinuationLine /\ UNCHANGED <<timeVars, scoreVars, viewVars>>
    \/ ParseEndOfInput /\ UNCHANGED <<timeVars, scoreVars, viewVars>>
SpecParse == ParseSpecInit /\ [][ParseNext]_vars

ScoreSpecInit == ScoreInit /\ TimeIdle /\ ParseIdle /\ ViewIdle
ScoreNext ==
    \/ RankPlayers /\ UNCHANGED <<timeVars, parseVars, viewVars>>
    \/ RedistributeDate /\ UNCHANGED <<timeVars, parseVars, viewVars>>
    \/ ScoresComputed /\ UNCHANGED <<timeVars, parseVars, viewVars>>
SpecScore == ScoreSpecInit /\ [][ScoreNext]_vars

ViewSpecInit == ViewInit /\ TimeIdle /\ ParseIdle /\ ScoreIdle
ViewNext ==
    \/ FilterOneDay /\ UNCHANGED <<timeVars, parseVars, scoreVars>>
    \/ FilterAllDays /\ UNCHANGED <<timeVars, parseVars, scoreVars>>
    \/ TotalTimes /\ UNCHANGED <<timeVars, parseVars, scoreVars>>
    \/ NoDataForGame /\ UNCHANGED <<timeVars, parseVars, scoreVars>>
    \/ PerGameRanking /\ UNCHANGED <<timeVars, parseVars, scoreVars>>
    \/ ReturnViews /\ UNCHANGED <<timeVars, parseVars, scoreVars>>
SpecViews == ViewSpecInit /\ [][ViewNext]_vars

(***************************************************************************)
(* Properties of the m:ss encoding (SpecTime).                             *)
(***************************************************************************)
\* C8: a non-negative number of seconds s, formatted as m:ss (minutes s div 60,
\* two-digit seconds s mod 60) and decoded by time_to_seconds, is s again.
C8_PlayTimeRoundTrips ==
    /\ time_pc \in {"decode", "done"} =>
          play_time = IntToStr(secs \div 60) \o <<":">> \o Pad2(secs % 60)
    /\ time_pc = "done" => decoded = Some(secs)

\* 125 -> "2:05" -> 125
C8_Witness ==
    /\ time_pc = "done"
    /\ secs = 125
    /\ play_time = <<"2", ":", "0", "5">>
    /\ decoded = Some(125)

(***************************************************************************)
(* Properties of the score engine (SpecScore).                             *)
(***************************************************************************)
DatesOf(g) == {g[i].date : i \in 1..Len(g)}

\* the redistribution loop has passed date d
DateDone(d) ==
    /\ score_pc \in {"dates", "done"}
    /\ \E k \in 1..dates_done : UniqueDates(game_df)[k] = d

GroupSize(d) == Cardinality(DateRows(game_df, d))
GroupSum(d) == ScoreSum(game_df, DateRows(game_df, d))

\* the rows of d's group that are strictly faster than row i
Faster(i) ==
    {j \in DateRows(game_df, game_df[i].date) : game_df[j].time_sec < game_df[i].time_sec}

\* C1: for every group (one date of one game) of n >= 1 entries, whatever the
\* ties, the points after redistribution sum to 9 when n >= 3, to 8 when n = 2
\* and to 5 when n = 1.
C1_PointsConserved ==
    \A d \in DatesOf(game_df) :
        DateDone(d) =>
            /\ GroupSize(d) >= 3 => GroupSum(d) = 9 * Scale
            /\ GroupSize(d) = 2 => GroupSum(d) = 8 * Scale
            /\ GroupSize(d) = 1 => GroupSum(d) = 5 * Scale

\* a group of four with a tie for first and a tie for third: 4, 4, 1/2, 1/2
C1_Witness ==
    /\ score_pc = "done"
    /\ \E d \in DatesOf(game_df) :
        /\ GroupSize(d) = 4
        /\ Cardinality({i \in DateRows(game_df, d) : game_df[i].score = 4 * Scale}) = 2
        /\ Cardinality({i \in DateRows(game_df, d) : 2 * game_df[i].score = Scale}) = 2

\* the base points of a rank, as the specification tabulates them
BasePoints(rank) == IF rank = 1 THEN 5 ELSE IF rank = 2 THEN 3 ELSE IF rank = 3 THEN 1 ELSE 0

\* the group of date d has exactly three rows, of pairwise distinct times
ThreeDistinct(d) ==
    /\ GroupSize(d) = 3
    /\ Cardinality({game_df[i].time_sec : i \in DateRows(game_df, d)}) = 3

\* C4: every entry's rank is 1 plus the number of strictly faster entries of its
\* group, its base points are 5, 3, 1 for the ranks 1, 2, 3 and 0 otherwise, and
\* a group of three distinct times scores 5, 3, 1 by increasing time, 9 in all,
\* before the redistribution and after it.
C4_RankAndBasePoints ==
    score_pc \in {"dates", "done"} =>
        \A i \in 1..Len(game_df) :
            /\ game_df[i].rank = 1 + Cardinality(Faster(i))
            /\ ~DateDone(game_df[i].date) =>
                  game_df[i].score = BasePoints(game_df[i].rank) * Scale
            /\ ThreeDistinct(game_df[i].date) =>
                  /\ game_df[i].score = BasePoints(1 + Cardinality(Faster(i))) * Scale
                  /\ GroupSum(game_df[i].date) = 9 * Scale

\* a group of three distinct times after its redistribution step
C4_Witness ==
    /\ score_pc = "done"
    /\ \E d \in DatesOf(game_df) :
        /\ ThreeDistinct(d)
        /\ {game_df[i].score : i \in DateRows(game_df, d)} = {5 * Scale, 3 * Scale, Scale}

\* the group of date d has three rows, two of them sharing the fastest time
TieForFirst(d) ==
    /\ GroupSize(d) = 3
    /\ Cardinality({i \in DateRows(game_df, d) : Faster(i) = {}}) = 2

\* C5 as stated: two entries tie for the fastest time and a third is slower;
\* the ranks are 1, 1, 2, the tied entries score 4 each and the third keeps
\* the 3 points of rank 2.
C5_ThirdHoldsRankTwo ==
    score_pc \in {"dates", "done"} =>
        \A d \in DatesOf(game_df) :
            TieForFirst(d) =>
                \A i \in DateRows(game_df, d) :
                    IF Faster(i) = {}
                    THEN /\ game_df[i].rank = 1
                         /\ DateDone(d) => game_df[i].score = 4 * Scale
                    ELSE /\ game_df[i].rank = 2
                         /\ game_df[i].score = 3 * Scale

\* C5 as amended: the ranks are 1, 1, 3; the tied entries score 4 each after
\* the redistribution and the third keeps the 1 point of rank 3.
C5_ThirdHoldsRankThree ==
    score_pc \in {"dates", "done"} =>
        \A d \in DatesOf(game_df) :
            TieForFirst(d) =>
                \A i \in DateRows(game_df, d) :
                    IF Faster(i) = {}
                    THEN /\ game_df[i].rank = 1
                         /\ ~DateDone(d) => game_df[i].score = 5 * Scale
                         /\ DateDone(d) => game_df[i].score = 4 * Scale
                    ELSE /\ game_df[i].rank = 3
                         /\ game_df[i].score = 1 * Scale

\* two entries at 0:45, a third at 0:50, after the redistribution
C5_Witness ==
    /\ score_pc = "done"
    /\ \E d \in DatesOf(game_df) :
        /\ TieForFirst(d)
        /\ \A i \in DateRows(game_df, d) :
              game_df[i].time_sec = IF Faster(i) = {} THEN 45 ELSE 50

(***************************************************************************)
(* Properties of the parser (SpecParse).                                   *)
(***************************************************************************)
ParseEnded == parse_pc \in {"returned", "raised"}

Cleaned(i) == clean_line(input[i])

\* line i is a header whose date token strptime rejects
BadDateHeader(i) ==
    IsHeaderLine(Cleaned(i)) /\ StrpDate(Head(Cleaned(i)).date) = None

RECURSIVE ContinuationsFrom(_)
\* the atoms of the non-header lines from line i up to the next header
ContinuationsFrom(i) ==
    IF i > Len(input) \/ IsHeaderLine(Cleaned(i)) THEN <<>>
    ELSE Cleaned(i) \o ContinuationsFrom(i + 1)

RECURSIVE ExpectedRowsFrom(_)
\* the rows of the messages that start at line i or later, a message with an
\* unparseable date left out
ExpectedRowsFrom(i) ==
    IF i > Len(input) THEN <<>>
    ELSE IF IsHeaderLine(Cleaned(i)) /\ ~BadDateHeader(i)
         THEN <<MakeRow(StrpDate(Head(Cleaned(i)).date)[1], Head(Cleaned(i)).sender,
                        Tail(Cleaned(i)) \o ContinuationsFrom(i + 1))>>
                  \o ExpectedRowsFrom(i + 1)
    ELSE ExpectedRowsFrom(i + 1)

\* C2: when a header's date token is not a calendar date in either format,
\* parse drops that message only: it does not raise, and the other messages
\* yield the rows they yield without it.
C2_BadDateDropsOnlyThatMessage ==
    (ParseEnded /\ \E i \in 1..Len(input) : BadDateHeader(i)) =>
        /\ parse_pc = "returned"
        /\ rows = ExpectedRowsFrom(1)

\* C3: parse of a stream without any message (no line at all, or no header
\* line) returns an empty table and does not raise.
C3_NoMessageReturnsEmptyTable ==
    (ParseEnded /\ \A i \in 1..Len(input) : ~IsHeaderLine(Cleaned(i))) =>
        /\ parse_pc = "returned"
        /\ rows = <<>>
        /\ parsed_df = <<>>

\* C6: the table parse returns never holds two rows equal in all six fields.
C6_NoIdenticalRows ==
    parse_pc = "returned" =>
        \A i, j \in 1..Len(parsed_df) : i # j => parsed_df[i] # parsed_df[j]

(***************************************************************************)
(* Properties of the views (SpecViews).                                    *)
(***************************************************************************)
TotalsComputed == view_pc \in {"games", "done"}

\* a player's results, their number and their summed time, and the largest
\* number of results of any player, read off the filtered table
ResultsOf(p) == {r \in filtered_df : r.sender = p}
CountOf(p) == Cardinality(ResultsOf(p))
ActualTotal(p) == TimeSum(ResultsOf(p))
MostResults == Max({CountOf(r.sender) : r \in filtered_df})

\* C7 as stated: the normalized total is T_p when n_p = M and otherwise
\* T_p + (M - n_p) x (T_p / n_p), the exact average.
C7_PaddedWithExactAverage ==
    TotalsComputed =>
        \A p \in DOMAIN daily_avg_times :
            IF CountOf(p) = MostResults
            THEN daily_avg_times[p].total100 = 100 * ActualTotal(p)
            ELSE CountOf(p) * daily_avg_times[p].total100 =
                    100 * (CountOf(p) * ActualTotal(p)
                           + (MostResults - CountOf(p)) * ActualTotal(p))

\* C7 as amended: the normalized total is T_p when n_p = M and otherwise
\* T_p + (M - n_p) x a, where a is the average T_p / n_p rounded to two
\* decimals (a whole number of hundredths at most half a hundredth off).
C7_PaddedWithRoundedAverage ==
    TotalsComputed =>
        /\ DOMAIN daily_avg_times = {r.sender : r \in filtered_df}
        /\ \A p \in DOMAIN daily_avg_times :
            IF CountOf(p) = MostResults
            THEN daily_avg_times[p].total100 = 100 * ActualTotal(p)
            ELSE LET pad == daily_avg_times[p].total100 - 100 * ActualTotal(p)
                     a   == pad \div (MostResults - CountOf(p))
                 IN  /\ pad = (MostResults - CountOf(p)) * a
                     /\ 2 * (100 * ActualTotal(p) - CountOf(p) * a) <= CountOf(p)
                     /\ 2 * (CountOf(p) * a - 100 * ActualTotal(p)) <= CountOf(p)

\* a player with 3 results against M = 4, of an average that is no whole
\* number of hundredths
C7_Witness ==
    /\ TotalsComputed
    /\ \E p \in DOMAIN daily_avg_times :
        /\ CountOf(p) = 3
        /\ MostResults = 4
        /\ (100 * ActualTotal(p)) % 3 # 0

\* the place of player p in the total-time view
TotalTimePlace(p) ==
    CHOOSE i \in 1..Len(final_total_times) : final_total_times[i].player = p

\* C9: the total-time view lists the players by ascending normalized total in
\* seconds: of two players, the one of the strictly smaller total comes first.
C9_TotalTimeAscending ==
    TotalsComputed =>
        \A p, q \in DOMAIN daily_avg_times :
            daily_avg_times[p].total100 < daily_avg_times[q].total100 =>
                TotalTimePlace(p) < TotalTimePlace(q)

\* the one result of player p for the game, in seconds, when there is just one
OneResult(game, p) ==
    Cardinality({r \in GameRows(filtered_df, game) : r.sender = p}) = 1
RawTime(game, p) ==
    (CHOOSE r \in GameRows(filtered_df, game) : r.sender = p).time_sec

\* C10: under a single-day filter a per-game view lists the players by
\* ascending raw time in seconds: a strictly faster player is never listed
\* after a slower one.
C10_SingleDayByRawTime ==
    day_filter # AllDays =>
        \A game \in DOMAIN per_game_rankings :
            \A i, j \in 1..Len(per_game_rankings[game]) :
                LET p == per_game_rankings[game][i].player
                    q == per_game_rankings[game][j].player
                IN  (/\ OneResult(game, p)
                     /\ OneResult(game, q)
                     /\ RawTime(game, p) < RawTime(game, q)) => i < j

(***************************************************************************)
(* The segmenter, read off rows: every joined message that line_re matches *)
(* appends one row, which carries the header's sender and the message's    *)
(* text after the header.                                                  *)
(***************************************************************************)
\* the header lines among the first n lines of the input
HeadersUpTo(n) == {i \in 1..n : i <= Len(input) /\ IsHeaderLine(Cleaned(i))}

\* the k-th header line of the input
NthHeader(k) ==
    CHOOSE i \in HeadersUpTo(Len(input)) : Cardinality(HeadersUpTo(i)) = k

\* how many messages are due: while lines are read, those a later header has
\* closed; once parse has ended, every one
MessagesDue ==
    IF parse_pc = "loop"
    THEN IF HeadersUpTo(pos - 1) = {} THEN 0 ELSE Cardinality(HeadersUpTo(pos - 1)) - 1
    ELSE Cardinality(HeadersUpTo(Len(input)))

\* C11: the segmenter emits one message per header line, in input order, each
\* once, at the next header or at end of input; its text is the header line
\* followed by the non-header lines up to the next header, joined in order;
\* lines before the first header create and alter no message.
C11_OneMessagePerHeader ==
    parse_pc \in {"loop", "returned", "raised"} =>
        /\ Len(rows) = MessagesDue
        /\ \A k \in 1..Len(rows) :
            /\ rows[k].sender = Head(Cleaned(NthHeader(k))).sender
            /\ rows[k].text = Tail(Cleaned(NthHeader(k)))
                                 \o ContinuationsFrom(NthHeader(k) + 1)

(***************************************************************************)
(* Day wins in the per-game views.                                         *)
(***************************************************************************)
\* the rows of a set in some order, as the frame the ranks are taken on
RECURSIVE RowsInOrder(_)
RowsInOrder(S) ==
    IF S = {} THEN <<>>
    ELSE LET x == CHOOSE y \in S : TRUE IN <<x>> \o RowsInOrder(S \ {x})

\* the rows of the game on the date, and the least time among them
DayRows(game, d) == {r \in GameRows(filtered_df, game) : r.date = d}
DayMinimum(game, d) ==
    CHOOSE t \in {r.time_sec : r \in DayRows(game, d)} :
        \A r \in DayRows(game, d) : t <= r.time_sec

\* the player's rows that hold the minimum of their date
WinsByMinimum(game, p) ==
    Cardinality({r \in GameRows(filtered_df, game) :
                    r.sender = p /\ r.time_sec = DayMinimum(game, r.date)})

\* the player's rows whose rank in their date's group is 1
WinsByRank(game, p) ==
    LET g == RowsInOrder(GameRows(filtered_df, game))
    IN  Cardinality({i \in 1..Len(g) : g[i].sender = p /\ RankMin(g, i) = 1})

\* C12: in each per-game view a player's day-win count is the number of the
\* player's rows, over all dates of the filter, whose time is the minimum of
\* the game on that date (every player sharing a minimum is counted, a player
\* with no such row has 0); these are the rows of rank 1 in their group.
C12_DayWinsAreRankOneRows ==
    \A game \in DOMAIN per_game_rankings :
        \A i \in 1..Len(per_game_rankings[game]) :
            LET p == per_game_rankings[game][i].player
            IN  /\ per_game_rankings[game][i].num_best = WinsByMinimum(game, p)
                /\ per_game_rankings[game][i].num_best = WinsByRank(game, p)

\* a view over two dates where two players share one date's minimum, one of
\* them wins the other date too, and a view where a player has no win
C12_Witness ==
    /\ day_filter = AllDays
    /\ \E game \in DOMAIN per_game_rankings :
        /\ \E d \in ViewDates :
             Cardinality({r.sender : r \in {x \in DayRows(game, d) :
                             x.time_sec = DayMinimum(game, d)}}) = 2
        /\ \E i, j \in 1..Len(per_game_rankings[game]) :
             /\ per_game_rankings[game][i].num_best = 2
             /\ per_game_rankings[game][j].num_best = 1
    /\ \E game \in DOMAIN per_game_rankings :
        \E i \in 1..Len(per_game_rankings[game]) :
            per_game_rankings[game][i].num_best = 0

(***************************************************************************)
(* The points inside one group after the redistribution.                   *)
(***************************************************************************)
\* the rows of row i's group that share its time, row i included
TiedWith(i) ==
    {j \in DateRows(game_df, game_df[i].date) : game_df[j].time_sec = game_df[i].time_sec}

\* the points row i is given before redistribution, from its place by time
BaseOf(i) == BasePoints(1 + Cardinality(Faster(i))) * Scale

\* C13: within one group, after redistribution, entries with equal times hold
\* equal points, a strictly faster entry never holds fewer points than a
\* slower one, no entry holds more than its base points, and an entry whose
\* base value is untied, or whose rank is above 3, keeps its 5, 3, 1 or 0.
C13_PointsFollowTimes ==
    \A i \in 1..Len(game_df) :
        DateDone(game_df[i].date) =>
            /\ \A j \in DateRows(game_df, game_df[i].date) :
                /\ game_df[j].time_sec = game_df[i].time_sec =>
                       game_df[j].score = game_df[i].score
                /\ game_df[j].time_sec < game_df[i].time_sec =>
                       game_df[j].score >= game_df[i].score
            /\ game_df[i].score <= BaseOf(i)
            /\ (Cardinality(TiedWith(i)) = 1 \/ game_df[i].rank > 3) =>
                   game_df[i].score = BaseOf(i)

\* a finished group of four: an untied first keeps 5, two tied for second hold
\* 2 each, the fourth keeps 0
C13_Witness ==
    /\ score_pc = "done"
    /\ \E i, j, k, l \in 1..Len(game_df) :
        /\ j # k
        /\ {game_df[x].date : x \in {i, j, k, l}} = {game_df[i].date}
        /\ game_df[i].time_sec < game_df[j].time_sec
        /\ game_df[j].time_sec = game_df[k].time_sec
        /\ game_df[k].time_sec < game_df[l].time_sec
        /\ game_df[i].score = 5 * Scale
        /\ game_df[j].score = 2 * Scale
        /\ game_df[k].score = 2 * Scale
        /\ game_df[l].score = 0

=============================================================================
